---- MODULE Spec2Model ----
(***************************************************************************)
(* Model of cogs/tibia.py of NabBot: the news poller Tibia.scan_news, the  *)
(* background task that fetches the recent news of Tibia.com, compares it  *)
(* with the id kept in data/last_article.txt and announces the unseen      *)
(* articles in the news channel of every guild.                            *)
(***************************************************************************)
EXTENDS Integers, Sequences, FiniteSets, TLC

(***************************************************************************)
(* Bounds of the model.                                                    *)
(***************************************************************************)
\* article ids run over FirstId..LastId; the range crosses 9/10 so that the
\* decimal text of a marker has one or two characters
FirstId == 8
LastId == 10
\* number of guilds the bot is in (self.bot.guilds)
NumGuilds == 2
\* number of feed fetches explored
MaxCycles == 2
\* highest level of a character
MaxLevel == 6

(***************************************************************************)
(* Program constants.                                                      *)
(***************************************************************************)
\* (dt.date.today() - article["date"]).days > 7
CutoffDays == 7
\* a long sleep of two minutes
LongSleep_Minutes == 60 * 2
\* asyncio.sleep(60 * 60 * 2) and asyncio.sleep(30), in seconds
LongSleep == 60 * 60 * 2
ShortSleep == 30

Ids == FirstId..LastId
Guilds == 1..NumGuilds
\* ages of a feed item in days, on both sides of the cutoff
Ages == {CutoffDays, CutoffDays + 1}
\* a channel id stored in the news_channel property of a guild
ChannelId == 1

(***************************************************************************)
(* data/last_article.txt: the file may be missing; its text is a sequence  *)
(* of characters.  str() and int() are modelled on decimal digits.         *)
(***************************************************************************)
DigitChars == <<"0", "1", "2", "3", "4", "5", "6", "7", "8", "9">>

IsDigit(c) == \E i \in 1..10 : DigitChars[i] = c

DigitVal(c) == (CHOOSE i \in 1..10 : DigitChars[i] = c) - 1

\* str(n) for a natural number n
RECURSIVE Str(_)
Str(n) == IF n < 10 THEN <<DigitChars[n + 1]>>
          ELSE Str(n \div 10) \o <<DigitChars[(n % 10) + 1]>>

\* int(text) raises ValueError on an empty text or a text with a non-digit
IsIntText(text) == Len(text) > 0 /\ \A i \in 1..Len(text) : IsDigit(text[i])

RECURSIVE IntOf(_)
IntOf(text) == IF Len(text) = 0 THEN 0
               ELSE 10 * IntOf(SubSeq(text, 1, Len(text) - 1)) + DigitVal(text[Len(text)])

NoFile == [exists |-> FALSE, text |-> <<>>]
FileWith(text) == [exists |-> TRUE, text |-> text]

\* a read that takes only the missing file as "no marker"
ReadLastId_CorruptNotZero(file) ==
    IF ~file.exists THEN 0
    ELSE IF IsIntText(file.text) THEN IntOf(file.text)
    ELSE -1

\* lines 1921-1926: open(...,'r'), int(f.read()), 0 on ValueError or
\* FileNotFoundError
ReadLastId(file) == IF file.exists /\ IsIntText(file.text) THEN IntOf(file.text) ELSE 0

\* lines 1928-1929 and 1942-1943: open(...,'w+'), f.write(str(last_article))
WriteLastArticle(n) == FileWith(Str(n))

(***************************************************************************)
(* The feeds get_recent_news() can return: newest first, by descending id. *)
(***************************************************************************)
Item(i, a) == [id |-> i, age |-> a]

RECURSIVE FeedsBelow(_)
FeedsBelow(top) ==
    {<<>>} \cup UNION { { <<Item(i, a)>> \o rest : a \in Ages, rest \in FeedsBelow(i - 1) }
                        : i \in FirstId..top }

Feeds == FeedsBelow(LastId)

\* the stores the poller can find when it starts
InitialStores == {NoFile, FileWith(<<>>), FileWith(<<"x">>), FileWith(<<"0">>)}
                 \cup { WriteLastArticle(n) : n \in (FirstId - 1)..LastId }

VARIABLES
    pc,              \* position of the task in scan_news
    closed,          \* self.bot.is_closed()
    store,           \* data/last_article.txt
    news_channel,    \* news_channel property of every guild
    recent_news,     \* result of get_recent_news()
    last_article,    \* recent_news[0]["id"]
    last_id,         \* the id read from the file
    idx,             \* position of "for article in recent_news"
    new_articles,    \* ids of the fetched articles, oldest first
    ai,              \* position of "for article in new_articles"
    gi,              \* position of "for guild in self.bot.guilds"
    cycles,          \* number of feed fetches so far
    kind,            \* how the current cycle went
    cycleLog,        \* marker writes, announcements and sends of the cycle
    lastRes,         \* outcome of the latest channel.send
    failPos,         \* place in cycleLog of the first send of this cycle that
                     \* raised Forbidden or HTTPException, 0 when there is none
    lastSleep,       \* seconds of the latest sleep of this cycle, 0 when none
    noneBody,        \* a get_news_article of this cycle returned None
    announcedBefore, \* ids announced in earlier cycles
    announcedNow,    \* ids announced in this cycle
    unslept,         \* an exception was logged and no sleep happened since
    cancelled,       \* the task was cancelled (news_announcements_task.cancel())
    readStore,       \* the file as the latest read of the marker found it
    streak,          \* number of consecutive failed feed fetches
    omitted,         \* ids whose get_news_article returned None, kept while
                     \* every later feed holds the marker's article
    cmd_in,          \* the argument of the command being handled
    cmd_out          \* the reply of the command being handled

vars == <<pc, closed, store, news_channel, recent_news, last_article, last_id, idx,
          new_articles, ai, gi, cycles, kind, cycleLog, lastRes, failPos, lastSleep,
          noneBody, announcedBefore, announcedNow, unslept, cancelled, readStore,
          streak, omitted, cmd_in, cmd_out>>

walkVars == <<recent_news, last_article, last_id, idx, new_articles>>
histVars == <<announcedBefore, announcedNow, noneBody, failPos, lastRes>>
sideVars == <<cancelled, readStore, streak, omitted>>
cmdVars == <<cmd_in, cmd_out>>

\* no command is being handled
NoCommand == [op |-> "none"]

Event(e, i, g) == [ev |-> e, id |-> i, guild |-> g]

Init ==
    /\ pc = "wait_ready"
    /\ closed = FALSE
    /\ store \in InitialStores
    /\ news_channel \in [Guilds -> {0, ChannelId}]
    /\ recent_news = <<>>
    /\ last_article = 0
    /\ last_id = 0
    /\ idx = 1
    /\ new_articles = <<>>
    /\ ai = 1
    /\ gi = 1
    /\ cycles = 0
    /\ kind = "none"
    /\ cycleLog = <<>>
    /\ lastRes = "none"
    /\ failPos = 0
    /\ lastSleep = 0
    /\ noneBody = FALSE
    /\ announcedBefore = {}
    /\ announcedNow = {}
    /\ unslept = FALSE
    /\ cancelled = FALSE
    /\ readStore = NoFile
    /\ streak = 0
    /\ omitted = {}
    /\ cmd_in = NoCommand
    /\ cmd_out = NoCommand

\* line 1913: await self.bot.wait_until_ready()
Ready ==
    /\ pc = "wait_ready"
    /\ pc' = "loop_test"
    /\ UNCHANGED <<closed, store, news_channel, walkVars, ai, gi, cycles, kind, cycleLog,
                   histVars, lastSleep, unslept,
                   sideVars, cmdVars>>

\* line 1914: while not self.bot.is_closed()
LoopTest ==
    /\ pc = "loop_test"
    /\ pc' = IF closed THEN "exit" ELSE "fetch"
    /\ UNCHANGED <<closed, store, news_channel, walkVars, ai, gi, cycles, kind, cycleLog,
                   histVars, lastSleep, unslept,
                   sideVars, cmdVars>>

\* what every fetch starts from: the history of the previous cycle is closed
BeginCycle ==
    /\ cycles' = cycles + 1
    /\ cycleLog' = <<>>
    /\ lastRes' = "none"
    /\ failPos' = 0
    /\ lastSleep' = 0
    /\ noneBody' = FALSE
    /\ announcedBefore' = announcedBefore \cup announcedNow
    /\ announcedNow' = {}
    /\ idx' = 1
    /\ new_articles' = <<>>
    /\ ai' = 1
    /\ gi' = 1
    /\ last_article' = 0
    /\ last_id' = 0

\* lines 1916-1919: the fetch returns a list
FetchOk ==
    /\ pc = "fetch"
    /\ cycles < MaxCycles
    /\ \E feed \in Feeds : recent_news' = feed
    /\ pc' = "compare"
    /\ kind' = "none"
    /\ BeginCycle
    /\ UNCHANGED <<closed, store, news_channel, unslept,
                   cancelled, readStore, cmdVars>>
    /\ streak' = 0
    /\ omitted' = IF \E i \in 1..Len(recent_news') : recent_news'[i].id = ReadLastId(store)
                  THEN omitted ELSE {}

\* lines 1917-1919: the fetch returns None
FetchNone ==
    /\ pc = "fetch"
    /\ cycles < MaxCycles
    /\ recent_news' = <<>>
    /\ pc' = "sleep_short"
    /\ BeginCycle
    /\ kind' = "fetch_none"
    /\ UNCHANGED <<closed, store, news_channel, unslept,
                   cancelled, readStore, omitted, cmdVars>>
    /\ streak' = streak + 1

\* a NetworkError of the fetch handled as by "except Exception": logged,
\* no sleep
FetchNetworkError_NoBackoff ==
    /\ pc = "fetch"
    /\ cycles < MaxCycles
    /\ recent_news' = <<>>
    /\ pc' = "loop_test"
    /\ BeginCycle
    /\ kind' = "network_error"
    /\ UNCHANGED <<closed, store, news_channel, unslept,
                   cancelled, readStore, omitted, cmdVars>>
    /\ streak' = streak + 1

\* lines 1916, 1962-1964: the fetch raises NetworkError
FetchNetworkError ==
    /\ pc = "fetch"
    /\ cycles < MaxCycles
    /\ recent_news' = <<>>
    /\ pc' = "sleep_short"
    /\ BeginCycle
    /\ kind' = "network_error"
    /\ UNCHANGED <<closed, store, news_channel, unslept,
                   cancelled, readStore, omitted, cmdVars>>
    /\ streak' = streak + 1

\* a first-run test that no stored value passes
IsFirstRun_Never(lid) == lid < 0

\* line 1927: if last_id == 0
IsFirstRun(lid) == lid = 0

\* lines 1920-1931: recent_news[0] raises IndexError on an empty list, which
\* "except Exception" logs (lines 1968-1969); otherwise the marker is read
\* and a first run seeds it
Compare ==
    /\ pc = "compare"
    /\ IF Len(recent_news) = 0
       THEN /\ pc' = "loop_test"
            /\ kind' = "exception"
            /\ unslept' = TRUE
            /\ UNCHANGED <<store, last_article, last_id, cycleLog>>
       ELSE /\ last_article' = recent_news[1].id
            /\ last_id' = ReadLastId(store)
            /\ unslept' = unslept
            /\ IF IsFirstRun(ReadLastId(store))
               THEN /\ store' = WriteLastArticle(recent_news[1].id)
                    /\ cycleLog' = Append(cycleLog, Event("write", recent_news[1].id, 0))
                    /\ kind' = "seed"
                    /\ pc' = "sleep_long"
               ELSE /\ pc' = "walk"
                    /\ UNCHANGED <<store, cycleLog, kind>>
    /\ UNCHANGED <<closed, news_channel, recent_news, idx, new_articles, ai, gi, cycles,
                   histVars, lastSleep,
                   cancelled, streak, omitted, cmdVars>>
    /\ readStore' = (IF Len(recent_news) = 0 THEN readStore ELSE store)

\* a walk without the one-week cutoff
WalkStops_NoCutoff ==
    IF idx > Len(recent_news) THEN TRUE
    ELSE recent_news[idx].id = last_id

\* lines 1933-1938: the walk stops at the end of the list, at the marker and
\* at an article older than a week
WalkStops ==
    IF idx > Len(recent_news) THEN TRUE
    ELSE \/ recent_news[idx].id = last_id
         \/ recent_news[idx].age > CutoffDays

\* new_articles.append(fetched_article) in place of insert(0, ...)
Collect_Append(batch, article) == Append(batch, article)

\* line 1941: new_articles.insert(0, fetched_article)
Collect(batch, article) == <<article>> \o batch

\* lines 1939-1941: fetched_article = await get_news_article(id)
WalkFetched ==
    /\ pc = "walk"
    /\ ~WalkStops
    /\ new_articles' = Collect(new_articles, recent_news[idx].id)
    /\ idx' = idx + 1
    /\ UNCHANGED <<pc, closed, store, news_channel, recent_news, last_article, last_id,
                   ai, gi, cycles, kind, cycleLog, histVars, lastSleep, unslept,
                   sideVars, cmdVars>>

\* the ids of the feed items that the walk has passed
Walked == { recent_news[k].id : k \in 1..(idx - 1) }

\* the None of get_news_article put into the batch like an article
WalkNone_Collects ==
    /\ pc = "walk"
    /\ ~WalkStops
    /\ noneBody' = TRUE
    /\ omitted' = omitted \cup {recent_news[idx].id}
    /\ new_articles' = Collect(new_articles, recent_news[idx].id)
    /\ idx' = idx + 1
    /\ UNCHANGED <<pc, closed, store, news_channel, recent_news, last_article, last_id,
                   ai, gi, cycles, kind, cycleLog, announcedBefore,
                   announcedNow, failPos, lastRes, lastSleep, unslept,
                   cancelled, readStore, streak, cmdVars>>

\* lines 1939-1940: get_news_article returns None, the article is left out
WalkNone ==
    /\ pc = "walk"
    /\ ~WalkStops
    /\ noneBody' = TRUE
    /\ omitted' = omitted \cup {recent_news[idx].id}
    /\ idx' = idx + 1
    /\ UNCHANGED <<pc, closed, store, news_channel, recent_news, last_article, last_id,
                   new_articles, ai, gi, cycles, kind, cycleLog, announcedBefore,
                   announcedNow, failPos, lastRes, lastSleep, unslept,
                   cancelled, readStore, streak, cmdVars>>

\* the marker written before the bodies are fetched: a NetworkError of
\* get_news_article finds it already in the file
WalkNetworkError_MarkerWritten ==
    /\ pc = "walk"
    /\ ~WalkStops
    /\ pc' = "sleep_short"
    /\ kind' = "network_error"
    /\ store' = WriteLastArticle(last_article)
    /\ omitted' = omitted \ Walked
    /\ UNCHANGED <<closed, news_channel, walkVars, ai, gi, cycles, cycleLog,
                   histVars, lastSleep, unslept,
                   cancelled, readStore, streak, cmdVars>>

\* lines 1939, 1962-1964: get_news_article raises NetworkError; the batch
\* of the cycle is dropped, and with it what the cycle left out
WalkNetworkError ==
    /\ pc = "walk"
    /\ ~WalkStops
    /\ pc' = "sleep_short"
    /\ kind' = "network_error"
    /\ omitted' = omitted \ Walked
    /\ UNCHANGED <<closed, store, news_channel, walkVars, ai, gi, cycles, cycleLog,
                   histVars, lastSleep, unslept,
                   cancelled, readStore, streak, cmdVars>>

\* the empty-batch test of lines 1944-1946 placed before the write of lines
\* 1942-1943
WalkEnd_WriteOnlyWithBatch ==
    /\ pc = "walk"
    /\ WalkStops
    /\ IF Len(new_articles) = 0
       THEN /\ pc' = "sleep_long"
            /\ kind' = "nothing"
            /\ UNCHANGED <<store, cycleLog>>
       ELSE /\ pc' = "announce"
            /\ kind' = "announce"
            /\ store' = WriteLastArticle(last_article)
            /\ cycleLog' = Append(cycleLog, Event("write", last_article, 0))
    /\ ai' = 1
    /\ gi' = 1
    /\ UNCHANGED <<closed, news_channel, walkVars, cycles, histVars, lastSleep, unslept,
                   sideVars, cmdVars>>

\* lines 1934-1938, 1942-1946: the walk ends, the marker is written, and an
\* empty batch goes to the long sleep
WalkEnd ==
    /\ pc = "walk"
    /\ WalkStops
    /\ store' = WriteLastArticle(last_article)
    /\ cycleLog' = Append(cycleLog, Event("write", last_article, 0))
    /\ IF Len(new_articles) = 0
       THEN pc' = "sleep_long" /\ kind' = "nothing"
       ELSE pc' = "announce" /\ kind' = "announce"
    /\ ai' = 1
    /\ gi' = 1
    /\ UNCHANGED <<closed, news_channel, walkVars, cycles, histVars, lastSleep, unslept,
                   sideVars, cmdVars>>

\* lines 1947-1948: for article in new_articles: log.info("Announcing ...")
Announce ==
    /\ pc = "announce"
    /\ IF ai > Len(new_articles)
       THEN /\ pc' = "sleep_long"
            /\ UNCHANGED <<cycleLog, announcedNow, gi>>
       ELSE /\ pc' = "deliver"
            /\ gi' = 1
            /\ cycleLog' = Append(cycleLog, Event("announce", new_articles[ai], 0))
            /\ announcedNow' = announcedNow \cup {new_articles[ai]}
    /\ UNCHANGED <<closed, store, news_channel, walkVars, ai, cycles, kind,
                   announcedBefore, noneBody, failPos, lastRes, lastSleep, unslept,
                   sideVars, cmdVars>>

\* line 1949: the guilds of the article are exhausted
DeliverDone ==
    /\ pc = "deliver"
    /\ gi > NumGuilds
    /\ ai' = ai + 1
    /\ pc' = "announce"
    /\ UNCHANGED <<closed, store, news_channel, walkVars, gi, cycles, kind, cycleLog,
                   histVars, lastSleep, unslept,
                   sideVars, cmdVars>>

\* every guild taken as having a news channel
OptedIn_Always(g) == TRUE

\* lines 1950-1951: news_channel_id == 0 means that the guild has no news
\* channel
OptedIn(g) == news_channel[g] # 0

\* lines 1950-1952: a guild without news channel is skipped
DeliverSkip ==
    /\ pc = "deliver"
    /\ gi <= NumGuilds
    /\ ~OptedIn(gi)
    /\ gi' = gi + 1
    /\ UNCHANGED <<pc, closed, store, news_channel, walkVars, ai, cycles, kind, cycleLog,
                   histVars, lastSleep, unslept,
                   sideVars, cmdVars>>

\* a guild that gets the article
AtSend == pc = "deliver" /\ gi <= NumGuilds /\ OptedIn(gi)

\* what lines 1953-1956 can raise: nothing, discord.Forbidden,
\* discord.HTTPException, or another exception (of get_channel_or_top,
\* get_article_embed or channel.send)
SendOutcomes == {"ok", "Forbidden", "HTTPException", "Exception"}

\* only discord.Forbidden handled at the guild
Caught_ForbiddenOnly(res) == res = "Forbidden"

\* lines 1957-1960: except discord.Forbidden, except discord.HTTPException
Caught(res) == res \in {"Forbidden", "HTTPException"}

\* lines 1953-1960: channel.send succeeds, or raises an exception that is
\* caught and logged at the guild
DeliverSend ==
    /\ AtSend
    /\ \E res \in SendOutcomes :
          /\ res = "ok" \/ Caught(res)
          /\ lastRes' = res
          /\ failPos' = IF res # "ok" /\ failPos = 0 THEN Len(cycleLog) + 1 ELSE failPos
    /\ cycleLog' = Append(cycleLog, Event("send", new_articles[ai], gi))
    /\ gi' = gi + 1
    /\ UNCHANGED <<pc, closed, store, news_channel, walkVars, ai, cycles, kind,
                   announcedBefore, announcedNow, noneBody, lastSleep, unslept,
                   sideVars, cmdVars>>

\* scan_news without the "except Exception" of lines 1968-1969: the
\* exception leaves the coroutine
DeliverError_Propagates ==
    /\ AtSend
    /\ \E res \in SendOutcomes :
          /\ res # "ok" /\ ~Caught(res)
          /\ lastRes' = res
    /\ cycleLog' = Append(cycleLog, Event("send", new_articles[ai], gi))
    /\ kind' = "exception"
    /\ unslept' = TRUE
    /\ pc' = "exit"
    /\ UNCHANGED <<closed, store, news_channel, walkVars, ai, gi, cycles,
                   announcedBefore, announcedNow, noneBody, failPos, lastSleep,
                   sideVars, cmdVars>>

\* lines 1953-1956, 1968-1969: an exception that the guild's handlers do
\* not catch leaves both loops; "except Exception" logs it and the while
\* loop goes on
DeliverError ==
    /\ AtSend
    /\ \E res \in SendOutcomes :
          /\ res # "ok" /\ ~Caught(res)
          /\ lastRes' = res
    /\ cycleLog' = Append(cycleLog, Event("send", new_articles[ai], gi))
    /\ kind' = "exception"
    /\ unslept' = TRUE
    /\ pc' = "loop_test"
    /\ UNCHANGED <<closed, store, news_channel, walkVars, ai, gi, cycles,
                   announcedBefore, announcedNow, noneBody, failPos, lastSleep,
                   sideVars, cmdVars>>

\* lines 1930, 1945, 1961: await asyncio.sleep(60 * 60 * 2)
SleepLong ==
    /\ pc = "sleep_long"
    /\ pc' = "loop_test"
    /\ lastSleep' = LongSleep
    /\ unslept' = FALSE
    /\ UNCHANGED <<closed, store, news_channel, walkVars, ai, gi, cycles, kind, cycleLog,
                   histVars,
                   sideVars, cmdVars>>

\* lines 1918, 1963: await asyncio.sleep(30)
SleepShort ==
    /\ pc = "sleep_short"
    /\ pc' = "loop_test"
    /\ lastSleep' = ShortSleep
    /\ unslept' = FALSE
    /\ UNCHANGED <<closed, store, news_channel, walkVars, ai, gi, cycles, kind, cycleLog,
                   histVars,
                   sideVars, cmdVars>>

\* a cancellation that does not get through channel.send
AtAwait_NotInSend ==
    \/ pc \in {"wait_ready", "fetch", "sleep_long", "sleep_short"}
    \/ pc = "walk" /\ ~WalkStops

\* the awaits of scan_news, where a cancellation reaches the task
AtAwait ==
    \/ pc \in {"wait_ready", "fetch", "sleep_long", "sleep_short"}
    \/ pc = "walk" /\ ~WalkStops
    \/ AtSend

\* lines 1965-1967, 1971-1973: __unload cancels the task; CancelledError is
\* raised at the await the task is suspended in and ends the loop
Cancel ==
    /\ AtAwait
    /\ pc' = "exit"
    /\ UNCHANGED <<closed, store, news_channel, walkVars, ai, gi, cycles, kind, cycleLog,
                   histVars, lastSleep, unslept,
                   readStore, streak, omitted, cmdVars>>
    /\ cancelled' = TRUE

\* the bot is closed (self.bot.is_closed() becomes true)
Close ==
    /\ ~closed
    /\ pc # "exit"
    /\ closed' = TRUE
    /\ UNCHANGED <<pc, store, news_channel, walkVars, ai, gi, cycles, kind, cycleLog,
                   histVars, lastSleep, unslept,
                   sideVars, cmdVars>>

Next ==
    \/ Ready
    \/ LoopTest
    \/ FetchOk
    \/ FetchNone
    \/ FetchNetworkError
    \/ Compare
    \/ WalkFetched
    \/ WalkNone
    \/ WalkNetworkError
    \/ WalkEnd
    \/ Announce
    \/ DeliverDone
    \/ DeliverSkip
    \/ DeliverSend
    \/ DeliverError
    \/ SleepLong
    \/ SleepShort
    \/ Cancel
    \/ Close

Spec == Init /\ [][Next]_vars

\* lines 1928-1929 and 1942-1943: the places where the file is written, and
\* the id written there
AtWrite ==
    \/ pc = "compare" /\ Len(recent_news) > 0 /\ IsFirstRun(ReadLastId(store))
    \/ pc = "walk" /\ WalkStops

IdToWrite == IF pc = "compare" THEN recent_news[1].id ELSE last_article

Prefixes(text) == { SubSeq(text, 1, k) : k \in 0..Len(text) }

\* the process stops inside "with open(..., 'w+') as f: f.write(...)":
\* open() has truncated the file, and none, a part or all of the text has
\* reached it
CrashInWrite ==
    /\ AtWrite
    /\ \E text \in Prefixes(Str(IdToWrite)) : store' = FileWith(text)
    /\ readStore' = store
    /\ last_article' = IdToWrite
    /\ pc' = "crashed"
    /\ UNCHANGED <<closed, news_channel, recent_news, last_id, idx, new_articles, ai, gi,
                   cycles, kind, cycleLog, histVars, lastSleep, unslept, cancelled,
                   streak, omitted, cmdVars>>

NextCrash == Next \/ CrashInWrite

\* the poller with a process that can stop during a write of the marker
SpecCrash == Init /\ [][NextCrash]_vars

\* the event loop ends every sleep and runs the loop test that follows it
FairSpec == Spec /\ WF_vars(SleepShort) /\ WF_vars(SleepLong) /\ WF_vars(LoopTest)

(***************************************************************************)
(* The commands.  A command is handled in one step from its argument       *)
(* (cmd_in) to its reply (cmd_out); the poller stands still meanwhile.     *)
(***************************************************************************)
pollerVars == <<pc, closed, store, news_channel, recent_news, last_article, last_id, idx,
                new_articles, ai, gi, cycles, kind, cycleLog, lastRes, failPos, lastSleep,
                noneBody, announcedBefore, announcedNow, unslept, cancelled, readStore,
                streak, omitted>>

\* the poller before its first step, no marker file, no news channel
PollerParked ==
    /\ pc = "wait_ready"
    /\ closed = FALSE
    /\ store = NoFile
    /\ news_channel = [g \in Guilds |-> 0]
    /\ recent_news = <<>>
    /\ last_article = 0
    /\ last_id = 0
    /\ idx = 1
    /\ new_articles = <<>>
    /\ ai = 1
    /\ gi = 1
    /\ cycles = 0
    /\ kind = "none"
    /\ cycleLog = <<>>
    /\ lastRes = "none"
    /\ failPos = 0
    /\ lastSleep = 0
    /\ noneBody = FALSE
    /\ announcedBefore = {}
    /\ announcedNow = {}
    /\ unslept = FALSE
    /\ cancelled = FALSE
    /\ readStore = NoFile
    /\ streak = 0
    /\ omitted = {}

Max(a, b) == IF a >= b THEN a ELSE b
Min(a, b) == IF a <= b THEN a ELSE b

Digits == { DigitChars[i] : i \in 1..10 }

\* the texts of at most n digits
DigitTexts(n) == UNION { [1..k -> Digits] : k \in 0..n }

(***************************************************************************)
(* Tibia.stamina                                                           *)
(***************************************************************************)
\* line 1141: the most digits a group of (\d{1,2}):(\d{1,2}) takes
GroupDigits == 2

\* the arguments of the command: digits, a colon, digits; the text after the
\* colon may be longer than the group that re.match takes from it; "before"
\* is the request that the user made before this one, with its reply
StaminaInputs(before) ==
    { [op |-> "stamina", hours |-> h, minutes |-> m, before |-> before] :
        h \in DigitTexts(GroupDigits), m \in DigitTexts(GroupDigits + 1) }

\* lines 1141-1145: the pattern needs a digit on both sides of the colon
Matches(hText, mText) == Len(hText) >= 1 /\ Len(mText) >= 1

\* line 1147: match.group(2), the first one or two digits after the colon
MinutesGroup(mText) == SubSeq(mText, 1, Min(GroupDigits, Len(mText)))

\* minutes of 61 or more refused, 60 let through
BadMinutes_Over60(minutes) == minutes > 60

\* line 1148: if minutes >= 60
BadMinutes(minutes) == minutes >= 60

\* line 1152: if hours > 42 or (hours == 42 and minutes > 0)
TooMuch(hours, minutes) == hours > 42 \/ (hours = 42 /\ minutes > 0)

\* a command without the branch of lines 1155-1157
IsFull_Never(hours) == FALSE

\* line 1155: elif hours == 42
IsFull(hours) == hours = 42

\* the minutes of the stamina dropped
Timedelta_HoursOnly(hours, minutes) == hours * 3600

\* dt.timedelta(hours=hours, minutes=minutes).total_seconds()
Timedelta(hours, minutes) == hours * 3600 + minutes * 60

\* a resting time without the ten minutes of line 1163
RestingTime_NoSettle(current) ==
    Max(Timedelta(40, 0) - current, 0) * 3
    + (Timedelta(42, 0) - Max(Timedelta(40, 0), current)) * 10

\* lines 1158-1163: the resting time in seconds
RestingTime(current) ==
    Max(Timedelta(40, 0) - current, 0) * 3
    + (Timedelta(42, 0) - Max(Timedelta(40, 0), current)) * 10
    + Timedelta(0, 10)

StaminaReply(r, h, m) == [op |-> "stamina", reply |-> r, hours |-> h, minutes |-> m]

\* lines 1141-1172: the reply to an argument
StaminaResult(hText, mText) ==
    IF ~Matches(hText, mText) THEN StaminaReply("format", 0, 0)
    ELSE LET hours == IntOf(hText)
             minutes == IntOf(MinutesGroup(mText))
         IN  IF BadMinutes(minutes) THEN StaminaReply("bad_minutes", 0, 0)
             ELSE IF TooMuch(hours, minutes) THEN StaminaReply("too_much", 0, 0)
             ELSE IF IsFull(hours) THEN StaminaReply("full", 0, 0)
             ELSE LET resting_time == RestingTime(Timedelta(hours, minutes))
                      \* lines 1165-1166: the two divmod
                      remainder == resting_time % 3600
                  IN  StaminaReply("rest", resting_time \div 3600, remainder \div 60)

InitStamina ==
    /\ PollerParked
    /\ cmd_in \in StaminaInputs(NoCommand)
    /\ cmd_out = NoCommand

\* lines 1133-1176: the command is handled
Stamina ==
    /\ cmd_in.op = "stamina"
    /\ cmd_out = NoCommand
    /\ cmd_out' = StaminaResult(cmd_in.hours, cmd_in.minutes)
    /\ UNCHANGED <<cmd_in, pollerVars>>

\* the user, told a resting time, asks again with one minute of stamina
\* more
StaminaAgain ==
    /\ cmd_in.op = "stamina"
    /\ cmd_in.before = NoCommand
    /\ cmd_out # NoCommand
    /\ cmd_out.reply = "rest"
    /\ LET hours == IntOf(cmd_in.hours)
           minutes == IntOf(MinutesGroup(cmd_in.minutes))
           asked == [hours |-> cmd_in.hours, minutes |-> cmd_in.minutes, reply |-> cmd_out]
       IN  cmd_in' = IF minutes + 1 < 60
                     THEN [op |-> "stamina", hours |-> Str(hours),
                           minutes |-> Str(minutes + 1), before |-> asked]
                     ELSE [op |-> "stamina", hours |-> Str(hours + 1),
                           minutes |-> Str(0), before |-> asked]
    /\ cmd_out' = NoCommand
    /\ UNCHANGED pollerVars

NextStamina == Stamina \/ StaminaAgain

SpecStamina == InitStamina /\ [][NextStamina]_vars

(***************************************************************************)
(* Tibia.share                                                             *)
(***************************************************************************)
\* line 1076: the most characters the command takes
MaxChars == 5

\* the names a user can type; "Cy" and "cy" are the same character
Names == {"ana", "bo", "cy", "Cy"}

\* str.lower() on the names
Lower(name) == IF name = "Cy" THEN "cy" ELSE name

Characters == { Lower(n) : n \in Names }

\* what get_character gives for a character: its level, or None, or a
\* NetworkError
NoSuchCharacter == 0
CharacterNetworkError == -1
Worlds == [Characters -> {CharacterNetworkError, NoSuchCharacter} \cup (1..MaxLevel)]

\* utils.tibia.get_share_range: level - floor(level / 3), clamped to 1, and
\* level + floor(level / 2)
get_share_range(level) == <<Max(1, level - (level \div 3)), level + (level \div 2)>>

\* the name lists of the command: up to "most" names, and lists of
\* most + 1 times the same name
NameLists(most) ==
    UNION { [1..k -> Names] : k \in 1..most }
    \cup { [i \in 1..(most + 1) |-> n] : n \in Names }

\* the arguments of the command: a number, or names separated by commas
ShareInputs(most) ==
    { [op |-> "share", numeric |-> TRUE, level |-> l, chars |-> <<>>] :
        l \in (-1)..MaxLevel }
    \cup
    { [op |-> "share", numeric |-> FALSE, level |-> 0, chars |-> names] :
        names \in NameLists(most) }

ShareReply(r, lo, hi, n, lowest, highest) ==
    [op |-> "share", reply |-> r, low |-> lo, high |-> hi, needs |-> n,
     lowest_name |-> lowest, highest_name |-> highest]

\* line 1096: all(x.lower() == chars[0].lower() for x in chars)
AllSame(chars) == \A i \in 1..Len(chars) : Lower(chars[i]) = Lower(chars[1])

\* lines 1100-1109: the first name of the list whose fetch fails, 0 if none
FirstFailure(chars, world) ==
    LET bad == { i \in 1..Len(chars) : world[Lower(chars[i])] < 1 }
    IN  IF bad = {} THEN 0 ELSE CHOOSE i \in bad : \A j \in bad : i <= j

\* the fetched characters, in the order of the list
Fetched(chars, world) ==
    [i \in 1..Len(chars) |-> [name |-> Lower(chars[i]), level |-> world[Lower(chars[i])]]]

\* sorted() is stable: a character goes behind those of its level
RECURSIVE InsertByLevel(_, _)
InsertByLevel(char, sorted) ==
    IF Len(sorted) = 0 THEN <<char>>
    ELSE IF sorted[Len(sorted)].level <= char.level THEN Append(sorted, char)
    ELSE Append(InsertByLevel(char, SubSeq(sorted, 1, Len(sorted) - 1)), sorted[Len(sorted)])

\* line 1111: sorted(char_data, key=lambda k: k.level)
RECURSIVE SortByLevel(_)
SortByLevel(char_data) ==
    IF Len(char_data) = 0 THEN <<>>
    ELSE InsertByLevel(char_data[Len(char_data)],
                       SortByLevel(SubSeq(char_data, 1, Len(char_data) - 1)))

\* both bounds taken from the character of the lowest level
JointRange_OfLowest(char_data) ==
    <<get_share_range(char_data[1].level)[1], get_share_range(char_data[1].level)[2]>>

\* lines 1112-1113: low of the highest level, high of the lowest level
JointRange(char_data) ==
    <<get_share_range(char_data[Len(char_data)].level)[1],
      get_share_range(char_data[1].level)[2]>>

\* the character that stands last after the sort
Lowest_IsHighest(char_data) == char_data[Len(char_data)]

\* lines 1114-1115: char_data[0], the character of the lowest level
Lowest(char_data) == char_data[1]

\* lines 1116-1117: char_data[-1], the character of the highest level
Highest(char_data) == char_data[Len(char_data)]

\* the comparison also holds at the low bound itself
NeedsLevels_Inclusive(low, lowest_level) == low >= lowest_level

\* line 1118: if low > char_data[0].level
NeedsLevels(low, lowest_level) == low > lowest_level

\* one level more than the distance to the low bound
LevelsNeeded_PlusOne(low, lowest_level) == low - lowest_level + 1

\* line 1119: low-lowest_level
LevelsNeeded(low, lowest_level) == low - lowest_level

\* lines 1094-1130: the reply for a list of two to five names
GroupResult(chars, world) ==
    IF AllSame(chars) THEN ShareReply("yourself", 0, 0, 0, "", "")
    ELSE IF FirstFailure(chars, world) # 0
    THEN IF world[Lower(chars[FirstFailure(chars, world)])] = NoSuchCharacter
         THEN ShareReply("no_character", 0, 0, 0, chars[FirstFailure(chars, world)], "")
         ELSE ShareReply("network_error", 0, 0, 0, "", "")
    ELSE LET char_data == SortByLevel(Fetched(chars, world))
             low == JointRange(char_data)[1]
             high == JointRange(char_data)[2]
             lowest == Lowest(char_data)
             highest == Highest(char_data)
         IN  IF NeedsLevels(low, lowest.level)
             THEN ShareReply("needs_levels", 0, 0, LevelsNeeded(low, lowest.level),
                             lowest.name, highest.name)
             ELSE ShareReply(IF Len(chars) > 2 THEN "all_share" ELSE "pair_share",
                             low, high, 0, lowest.name, highest.name)

\* only levels below zero are rejected
InvalidLevel_NegativeOnly(level) == level < 0

\* line 1068: if level < 1
InvalidLevel(level) == level < 1

\* lines 1065-1130: the reply to an argument, with the characters that
\* get_character finds
ShareResult(in, world) ==
    IF in.numeric
    THEN IF InvalidLevel(in.level) THEN ShareReply("invalid_level", 0, 0, 0, "", "")
         ELSE ShareReply("level_range", get_share_range(in.level)[1],
                         get_share_range(in.level)[2], 0, "", "")
    ELSE IF Len(in.chars) > MaxChars THEN ShareReply("too_many", 0, 0, 0, "", "")
    ELSE IF Len(in.chars) = 1
    THEN LET level == world[Lower(in.chars[1])]
         IN  IF level = CharacterNetworkError
             THEN ShareReply("network_error", 0, 0, 0, "", "")
             ELSE IF level = NoSuchCharacter
             THEN ShareReply("no_character", 0, 0, 0, in.chars[1], "")
             ELSE ShareReply("char_range", get_share_range(level)[1],
                             get_share_range(level)[2], 0, Lower(in.chars[1]), "")
    ELSE GroupResult(in.chars, world)

\* lines 1071, 1091, 1112, 1113: the levels that the command passes to
\* get_share_range
ShareCalls(in, world) ==
    IF in.numeric
    THEN IF InvalidLevel(in.level) THEN {} ELSE {in.level}
    ELSE IF Len(in.chars) > MaxChars THEN {}
    ELSE IF Len(in.chars) = 1
    THEN IF world[Lower(in.chars[1])] < 1 THEN {} ELSE {world[Lower(in.chars[1])]}
    ELSE IF AllSame(in.chars) \/ FirstFailure(in.chars, world) # 0 THEN {}
    ELSE LET char_data == SortByLevel(Fetched(in.chars, world))
         IN  {char_data[Len(char_data)].level, char_data[1].level}

InitShare ==
    /\ PollerParked
    /\ cmd_in \in ShareInputs(MaxChars)
    /\ cmd_out = NoCommand

\* lines 1050-1130: the command is handled
Share ==
    /\ cmd_in.op = "share"
    /\ cmd_out = NoCommand
    /\ \E world \in Worlds :
          cmd_out' = [result |-> ShareResult(cmd_in, world), world |-> world,
                      calls |-> ShareCalls(cmd_in, world)]
    /\ UNCHANGED <<cmd_in, pollerVars>>

(***************************************************************************)
(* Tibia.searchworld                                                       *)
(***************************************************************************)
\* the levels of a level range typed by the user
RangeLevels == {0, 1, MaxLevel}

\* the arguments of the command once the world name is taken off: a name, a
\* level, two levels, a name with a second argument, or too many arguments;
\* with the state of the channel (no embed permission, no world to search)
SearchInputs ==
    { [op |-> "searchworld", pre |-> pre, form |-> f.form, name |-> f.name,
       level |-> f.level, level2 |-> f.level2] :
        pre \in {"no_embed", "no_world", "ok"},
        f \in { [form |-> "name", name |-> n, level |-> 0, level2 |-> 0] : n \in Names }
              \cup { [form |-> "level", name |-> "", level |-> l, level2 |-> 0] :
                        l \in (-1)..MaxLevel }
              \cup { [form |-> "range", name |-> "", level |-> l, level2 |-> m] :
                        l \in RangeLevels, m \in RangeLevels }
              \cup { [form |-> "name_and_more", name |-> "ana", level |-> 0, level2 |-> 0],
                     [form |-> "too_many", name |-> "", level |-> 0, level2 |-> 0] } }

\* what get_world gives
WorldOutcomes == {"none", "network_error", "ok"}

SearchReply(r, lo, hi, listed, calls) ==
    [op |-> "searchworld", reply |-> r, low |-> lo, high |-> hi, listed |-> listed,
     calls |-> calls]

\* line 969: world.players_online, the characters that are in the world
Online(world) == { c \in Characters : world[c] >= 1 }

\* line 1032: the players of the list inside low..high, without the
\* character that was searched
InRange(world, low, high, filter_name) ==
    { c \in Online(world) : low <= world[c] /\ world[c] <= high /\ c # filter_name }

\* lines 1032-1036: the reply for a range
Listing(world, low, high, filter_name, calls) ==
    IF InRange(world, low, high, filter_name) = {}
    THEN SearchReply("empty", low, high, {}, calls)
    ELSE SearchReply("list", low, high, InRange(world, low, high, filter_name), calls)

\* lines 1016, 1022: a level of zero or less is not a level
SearchInvalidLevel(level) == level <= 0

\* lines 930-1048: the reply to the arguments, with what get_world and
\* get_character give
SearchResult(in, outcome, world) ==
    IF in.pre = "no_embed" THEN SearchReply("no_embed", 0, 0, {}, {})
    ELSE IF in.form = "too_many" THEN SearchReply("invalid_arguments", 0, 0, {}, {})
    ELSE IF in.pre = "no_world" THEN SearchReply("must_specify", 0, 0, {}, {})
    ELSE IF outcome = "none" THEN SearchReply("no_such_world", 0, 0, {}, {})
    ELSE IF outcome = "network_error" THEN SearchReply("network_error", 0, 0, {}, {})
    ELSE IF Online(world) = {} THEN SearchReply("no_one_online", 0, 0, {}, {})
    ELSE IF in.form = "name_and_more" THEN SearchReply("invalid_arguments", 0, 0, {}, {})
    ELSE IF in.form = "name"
    THEN LET level == world[Lower(in.name)]
         IN  IF level = NoSuchCharacter THEN SearchReply("no_character", 0, 0, {}, {})
             ELSE IF level = CharacterNetworkError
             THEN SearchReply("character_network_error", 0, 0, {}, {})
             ELSE Listing(world, get_share_range(level)[1], get_share_range(level)[2],
                          Lower(in.name), {level})
    ELSE IF in.form = "range"
    THEN IF SearchInvalidLevel(in.level) \/ SearchInvalidLevel(in.level2)
         THEN SearchReply("invalid_level", 0, 0, {}, {})
         ELSE Listing(world, Min(in.level, in.level2), Max(in.level, in.level2), "", {})
    ELSE IF SearchInvalidLevel(in.level) THEN SearchReply("invalid_level", 0, 0, {}, {})
    ELSE Listing(world, get_share_range(in.level)[1], get_share_range(in.level)[2], "",
                 {in.level})

InitSearch ==
    /\ PollerParked
    /\ cmd_in \in SearchInputs
    /\ cmd_out = NoCommand

\* lines 915-1048: the command is handled
SearchWorld ==
    /\ cmd_in.op = "searchworld"
    /\ cmd_out = NoCommand
    /\ \E world \in Worlds, outcome \in WorldOutcomes :
          cmd_out' = [result |-> SearchResult(cmd_in, outcome, world), world |-> world,
                      calls |-> SearchResult(cmd_in, outcome, world).calls]
    /\ UNCHANGED <<cmd_in, pollerVars>>

NextShare == Share \/ SearchWorld

SpecShare == (InitShare \/ InitSearch) /\ [][NextShare]_vars

(***************************************************************************)
(* Tibia.stats                                                             *)
(***************************************************************************)
\* line 1233: levels from here on are not answered
StatsLimit == 2000

\* the times the command is asked in a row
MaxRequests == 2

\* the levels a user can type, and the level of a character
StatsLevels == (-1)..(StatsLimit + 1)

\* the vocations that get_stats knows, and a word that is not a vocation
Vocations == {"knight", "paladin", "sorcerer", "druid", "none"}
VocationWords == Vocations \cup {"bogus"}

\* the arguments of the command: level,vocation or vocation,level, the name
\* of a character (of some level and vocation), or anything else; "asked"
\* counts the requests
StatsInputs(asked) ==
    { [op |-> "stats", form |-> f, level |-> l, vocation |-> v, asked |-> asked] :
        f \in {"level_vocation", "vocation_level"}, l \in StatsLevels, v \in VocationWords }
    \cup
    { [op |-> "stats", form |-> "character", level |-> l, vocation |-> v, asked |-> asked] :
        l \in 1..(StatsLimit + 1), v \in Vocations }
    \cup
    { [op |-> "stats", form |-> "invalid", level |-> 0, vocation |-> "none",
       asked |-> asked] }

\* what get_character gives
CharacterOutcomes == {"found", "none", "network_error"}

\* the level from which a vocation grows by its own constants
PromotionLevel == 8

\* what a character gains with a level: hitpoints, mana and capacity
Gain ==
    [knight   |-> [hp |-> 15, mp |-> 5,  cap |-> 25],
     paladin  |-> [hp |-> 10, mp |-> 15, cap |-> 20],
     sorcerer |-> [hp |-> 5,  mp |-> 30, cap |-> 10],
     druid    |-> [hp |-> 5,  mp |-> 30, cap |-> 10],
     none     |-> [hp |-> 5,  mp |-> 5,  cap |-> 10]]

\* what a character has before its first level
Base == [hp |-> 145, mp |-> 50, cap |-> 390]

\* the vocation's growth starts again from the base at the promotion
get_stats_DropsAtPromotion(level, vocation) ==
    IF vocation \notin DOMAIN Gain THEN [valid |-> FALSE, hp |-> 0, mp |-> 0, cap |-> 0]
    ELSE IF level < PromotionLevel
    THEN [valid |-> TRUE,
          hp  |-> Base.hp + Gain["none"].hp * level,
          mp  |-> Base.mp + Gain["none"].mp * level,
          cap |-> Base.cap + Gain["none"].cap * level]
    ELSE [valid |-> TRUE,
          hp  |-> Base.hp + Gain[vocation].hp * (level - PromotionLevel),
          mp  |-> Base.mp + Gain[vocation].mp * (level - PromotionLevel),
          cap |-> Base.cap + Gain[vocation].cap * (level - PromotionLevel)]

\* utils.tibia.get_stats: hitpoints, mana and capacity grow by the constants
\* of no vocation up to the promotion level and by the constants of the
\* vocation after it; a word that is no vocation is a ValueError.  The
\* experience figures of the snapshot have no part in what is checked here.
get_stats(level, vocation) ==
    IF vocation \notin DOMAIN Gain THEN [valid |-> FALSE, hp |-> 0, mp |-> 0, cap |-> 0]
    ELSE LET early == Min(level, PromotionLevel)
             late == Max(0, level - PromotionLevel)
         IN  [valid |-> TRUE,
              hp  |-> Base.hp + Gain["none"].hp * early + Gain[vocation].hp * late,
              mp  |-> Base.mp + Gain["none"].mp * early + Gain[vocation].mp * late,
              cap |-> Base.cap + Gain["none"].cap * early + Gain[vocation].cap * late]

StatsReply(r, level, vocation, stats, evaluated) ==
    [reply |-> r, level |-> level, vocation |-> vocation, hp |-> stats.hp,
     mp |-> stats.mp, cap |-> stats.cap, evaluated |-> evaluated]

NoStats == [hp |-> 0, mp |-> 0, cap |-> 0]

\* line 1230: if level <= 0
StatsTooLow(level) == level <= 0

\* only levels above the limit are refused
StatsTooHigh_Above(level) == level > StatsLimit

\* line 1233: if level >= 2000
StatsTooHigh(level) == level >= StatsLimit

\* lines 1230-1261: the reply for a level and a vocation
StatsFor(level, vocation) ==
    IF StatsTooLow(level) THEN StatsReply("too_low", level, vocation, NoStats, FALSE)
    ELSE IF StatsTooHigh(level) THEN StatsReply("too_high", level, vocation, NoStats, FALSE)
    ELSE IF ~get_stats(level, vocation).valid
    THEN StatsReply("value_error", level, vocation, NoStats, TRUE)
    ELSE StatsReply("stats", level, vocation, get_stats(level, vocation), TRUE)

\* lines 1198-1261: the reply to the arguments, with what get_character
\* gives for a name
StatsResult(in, outcome) ==
    IF in.form = "invalid" THEN StatsReply("invalid_arguments", 0, "", NoStats, FALSE)
    ELSE IF in.form = "character" /\ outcome = "none"
    THEN StatsReply("try_again", 0, "", NoStats, FALSE)
    ELSE IF in.form = "character" /\ outcome = "network_error"
    THEN StatsReply("does_not_exist", 0, "", NoStats, FALSE)
    ELSE StatsFor(in.level, in.vocation)

InitStats ==
    /\ PollerParked
    /\ cmd_in \in StatsInputs(1)
    /\ cmd_out = [op |-> "stats", log |-> <<>>]

\* lines 1185-1261: the command is handled
Stats ==
    /\ cmd_in.op = "stats"
    /\ Len(cmd_out.log) < cmd_in.asked
    /\ \E outcome \in CharacterOutcomes :
          cmd_out' = [cmd_out EXCEPT !.log = Append(@, StatsResult(cmd_in, outcome))]
    /\ UNCHANGED <<cmd_in, pollerVars>>

\* the user asks again, for the next level of the same vocation
StatsAgain ==
    /\ cmd_in.op = "stats"
    /\ cmd_in.form # "invalid"
    /\ Len(cmd_out.log) = cmd_in.asked
    /\ cmd_in.asked < MaxRequests
    /\ cmd_in.level < StatsLimit + 1
    /\ cmd_in' = [cmd_in EXCEPT !.level = @ + 1, !.asked = @ + 1]
    /\ UNCHANGED <<cmd_out, pollerVars>>

NextStats == Stats \/ StatsAgain

SpecStats == InitStats /\ [][NextStats]_vars

(***************************************************************************)
(* Properties of the news poller.                                          *)
(***************************************************************************)
LogIdx == 1..Len(cycleLog)
BatchIds == { new_articles[k] : k \in 1..Len(new_articles) }
SendCount(a, g) == Cardinality({ i \in LogIdx : cycleLog[i] = Event("send", a, g) })
\* the cycle went through its emission and reached the long sleep
EmissionDone == pc = "sleep_long" /\ kind = "announce"

\* C1: on a first run (the fetch returned a non-empty feed and the marker
\* read as 0) the poller writes the id of the first feed item as the
\* marker, announces nothing and sends nothing in that cycle, and its next
\* step is the long sleep.
C1_FirstRunSeeds ==
    (Len(recent_news) > 0 /\ pc # "compare" /\ last_id = 0) =>
        /\ kind = "seed"
        /\ store.exists /\ IntOf(store.text) = recent_news[1].id
        /\ cycleLog = <<Event("write", recent_news[1].id, 0)>>
        /\ announcedNow = {}
        /\ \/ pc = "sleep_long" /\ lastSleep = 0
           \/ pc \in {"loop_test", "fetch", "exit"} /\ lastSleep = 60 * 60 * 2
           \/ pc = "exit" /\ lastSleep = 0

C1_Witness ==
    /\ pc = "sleep_long"
    /\ kind = "seed"
    /\ last_id = 0
    /\ Len(recent_news) = 3
    /\ IntOf(store.text) = recent_news[1].id
    /\ \E g \in Guilds : news_channel[g] # 0

\* the ids of the longest prefix of the feed without the marker's item and
\* without an item older than 7 days
FreshPrefix ==
    { recent_news[j].id :
        j \in { i \in 1..Len(recent_news) :
                  \A k \in 1..i : recent_news[k].id # last_id /\ recent_news[k].age <= 7 } }

\* C2: with a marker present and no article body missing, the batch of a
\* cycle, and the set of articles announced when its emission is done, is
\* exactly the longest prefix of the feed that has neither the marker's item
\* nor an item older than 7 days.
C2_AnnouncesFreshPrefix ==
    (last_id # 0 /\ kind \in {"announce", "nothing"} /\ ~noneBody) =>
        /\ BatchIds = FreshPrefix
        /\ pc = "sleep_long" => announcedNow = FreshPrefix

\* a recent unseen item behind a stale one is not announced
C2_Witness ==
    /\ EmissionDone
    /\ ~noneBody
    /\ announcedNow # {}
    /\ \E i, j \in 1..Len(recent_news) :
          /\ i < j
          /\ recent_news[i].age > 7
          /\ recent_news[j].age <= 7
          /\ recent_news[j].id \notin announcedNow
          /\ \A k \in 1..j : recent_news[k].id # last_id

FeedPos(a) == CHOOSE i \in 1..Len(recent_news) : recent_news[i].id = a

\* C3: the sends of a cycle go oldest first: a send of an article that is
\* later in the feed comes before every send of an article that is earlier
\* in the feed.
C3_OldestFirst ==
    \A i, j \in LogIdx :
        (/\ cycleLog[i].ev = "send"
         /\ cycleLog[j].ev = "send"
         /\ FeedPos(cycleLog[i].id) > FeedPos(cycleLog[j].id)) => i < j

C3_Witness ==
    /\ EmissionDone
    /\ \E i, j \in LogIdx :
          /\ cycleLog[i].ev = "send"
          /\ cycleLog[j].ev = "send"
          /\ cycleLog[i].id # cycleLog[j].id

\* C4: an article announced in an earlier cycle is never announced again in
\* a later cycle.
C4_NeverAnnouncedTwice ==
    \A i \in LogIdx : cycleLog[i].ev = "announce" => cycleLog[i].id \notin announcedBefore

\* C5: in a cycle that announces articles the marker is written only after
\* the emission: no write of the cycle comes before a send of the cycle.
C5_MarkerAfterEmission ==
    \A i, j \in LogIdx :
        (cycleLog[i].ev = "write" /\ cycleLog[j].ev = "send") => j < i

\* C6: at the end of every cycle whose fetches succeeded (the poller is at
\* its long sleep) the marker read from the store is the id of the first
\* feed item, whether or not an article was announced.
C6_MarkerIsNewest ==
    (pc = "sleep_long" /\ kind \in {"seed", "nothing", "announce"}) =>
        /\ store.exists
        /\ IsIntText(store.text)
        /\ IntOf(store.text) = recent_news[1].id

\* a cycle that announced nothing and still moved the marker
C6_Witness ==
    /\ pc = "sleep_long"
    /\ kind = "nothing"
    /\ ~noneBody
    /\ last_id # recent_news[1].id
    /\ IntOf(store.text) = recent_news[1].id
    /\ recent_news[1].id >= 10

\* C7: every value written to the store is greater than or equal to the
\* value the store held before.
C7_MarkerMonotone == [][ReadLastId(store') >= ReadLastId(store)]_vars

\* a send has been made for every article of the batch and every guild
\* with a news channel
AllSent ==
    \A k \in 1..Len(new_articles) : \A g \in Guilds :
        news_channel[g] # 0 => SendCount(new_articles[k], g) = 1

\* C8: a send that raises Forbidden or HTTPException is followed by the next
\* guild of the same article; a cycle with such a failure that reaches the
\* long sleep has sent every article to every guild with a news channel, and
\* the poller leaves such a cycle only through the long sleep (or an
\* exception of another kind, or cancellation).
C8_FailureDoesNotAbort ==
    /\ []((failPos # 0 /\ pc = "sleep_long") => AllSent)
    /\ []((failPos # 0 /\ lastRes # "Exception" /\ pc \in {"loop_test", "fetch"})
             => lastSleep = 60 * 60 * 2)
    /\ [][(/\ pc = "deliver"
           /\ Len(cycleLog') > Len(cycleLog)
           /\ lastRes' \in {"Forbidden", "HTTPException"})
             => (pc' = "deliver" /\ gi' = gi + 1 /\ ai' = ai)]_vars

\* the first guild failed for the first article; the second guild and the
\* second article were still served
C8_Witness ==
    /\ EmissionDone
    /\ failPos # 0
    /\ Len(new_articles) >= 2
    /\ cycleLog[failPos].id = new_articles[1]
    /\ \E j \in LogIdx :
          /\ j > failPos
          /\ cycleLog[j].ev = "send"
          /\ cycleLog[j].id = cycleLog[failPos].id
          /\ cycleLog[j].guild > cycleLog[failPos].guild
    /\ \E j \in LogIdx :
          /\ j > failPos
          /\ cycleLog[j].ev = "send"
          /\ cycleLog[j].id = new_articles[2]

\* C9: no send goes to a guild whose news_channel is 0 or for an article out
\* of the batch, no guild gets an article twice, and when the emission is
\* done every article of the batch has exactly one send to every guild
\* whose news_channel is not 0.
C9_OneSendPerOptedInGuild ==
    /\ \A i \in LogIdx : cycleLog[i].ev = "send" =>
          /\ news_channel[cycleLog[i].guild] # 0
          /\ cycleLog[i].id \in BatchIds
    /\ \A a \in Ids : \A g \in Guilds : SendCount(a, g) <= 1
    /\ EmissionDone => AllSent

C9_Witness ==
    /\ EmissionDone
    /\ Len(new_articles) >= 2
    /\ \E g \in Guilds : news_channel[g] = 0
    /\ \E g \in Guilds : news_channel[g] # 0 /\ SendCount(new_articles[2], g) = 1

\* C10: after an unexpected exception of an iteration the poller sleeps
\* before it fetches the feed again.
C10_SleepsAfterException == pc = "fetch" => ~unslept

\* the feed fetch of the cycle returned None or raised NetworkError
FetchFailed == kind \in {"fetch_none", "network_error"} /\ Len(recent_news) = 0

\* C11: after a feed fetch that returned None or raised NetworkError the
\* poller is at the 30 second sleep, then at the loop test, then at the
\* fetch again, whatever the number of failures before; it leaves the loop
\* only when cancelled or when the bot is closed; it does come back to the
\* fetch; and a fetch that succeeds goes on to the comparison with the
\* marker.
C11_FetchFailureRetries ==
    /\ []((FetchFailed /\ ~cancelled) =>
            /\ pc \in {"sleep_short", "loop_test", "fetch", "exit"}
            /\ pc = "exit" => closed
            /\ pc # "sleep_short" => lastSleep = 30)
    /\ (FetchFailed ~> (pc = "fetch" \/ cancelled \/ closed))
    /\ [][(pc = "fetch" /\ cycles' > cycles /\ streak' = 0) => pc' = "compare"]_vars

\* two failed fetches in a row, and the poller is at the fetch again
C11_Witness ==
    /\ streak >= 2
    /\ FetchFailed
    /\ pc = "fetch"
    /\ lastSleep = 30
    /\ ~cancelled
    /\ ~closed

Suspended ==
    \/ pc \in {"wait_ready", "fetch", "sleep_long", "sleep_short"}
    \/ /\ pc = "walk"
       /\ idx <= Len(recent_news)
       /\ recent_news[idx].id # last_id
       /\ recent_news[idx].age <= 7
    \/ /\ pc = "deliver"
       /\ gi <= NumGuilds
       /\ news_channel[gi] # 0

\* C13: the task can be cancelled in every await (waiting for the bot,
\* fetching, fetching an article body, sending, sleeping); a cancelled task
\* is at the exit of the loop, and from then on it fetches nothing, writes
\* no marker and sends nothing.
C13_CancelEndsLoop ==
    /\ [](Suspended => ENABLED Cancel)
    /\ [](cancelled => pc = "exit")
    /\ [][cancelled => UNCHANGED <<pc, store, cycles, cycleLog, recent_news, announcedNow>>]_vars

\* cancelled in the middle of an emission
C13_Witness ==
    /\ cancelled
    /\ pc = "exit"
    /\ kind = "announce"
    /\ ai <= Len(new_articles)
    /\ \E i \in LogIdx : cycleLog[i].ev = "send"

\* the file is missing, empty, or has a character that is not a digit
Corrupt(file) ==
    \/ ~file.exists
    \/ Len(file.text) = 0
    \/ \E i \in 1..Len(file.text) :
          file.text[i] \notin {"0", "1", "2", "3", "4", "5", "6", "7", "8", "9"}

\* C14: when the marker file read by a cycle is missing, empty or not a
\* number, the cycle is a first run: it writes the id of the first feed
\* item, announces and sends nothing, goes to the long sleep, and the loop
\* goes on (it is left only by cancellation or a closed bot).
C14_CorruptStoreSeeds ==
    (Len(recent_news) > 0 /\ pc # "compare" /\ Corrupt(readStore)) =>
        /\ kind = "seed"
        /\ store.exists /\ IntOf(store.text) = recent_news[1].id
        /\ announcedNow = {}
        /\ \A i \in LogIdx : cycleLog[i].ev = "write"
        /\ pc \in {"sleep_long", "loop_test", "fetch", "exit"}
        /\ pc = "exit" => (cancelled \/ closed)

C14_Witness ==
    /\ readStore.exists
    /\ readStore.text = <<"x">>
    /\ kind = "seed"
    /\ pc = "fetch"
    /\ lastSleep = 60 * 60 * 2
    /\ IntOf(store.text) = recent_news[1].id

\* C15: a process that stops during a write of the marker leaves in the
\* file the value it had before or the complete new value.
C15_AtomicWrite ==
    pc = "crashed" =>
        \/ store = readStore
        \/ store.exists /\ IsIntText(store.text) /\ IntOf(store.text) = last_article

\* C16: after a cycle that seeded the marker, found nothing new or
\* announced its batch, the poller is at the long sleep, and it is back at
\* the loop test and at the fetch only after a sleep of 2 hours.
C16_LongSleepAfterCycle ==
    /\ (kind \in {"seed", "nothing"}) =>
          pc \in {"sleep_long", "loop_test", "fetch", "exit"}
    /\ (kind \in {"seed", "nothing", "announce"} /\ pc \in {"loop_test", "fetch"}) =>
          lastSleep = 7200
    /\ (kind \in {"seed", "nothing", "announce"} /\ pc = "exit" /\ ~cancelled) =>
          lastSleep = 7200

C16_Witness ==
    /\ kind = "announce"
    /\ pc = "fetch"
    /\ lastSleep = 7200
    /\ announcedNow # {}

\* the cycle failed in a fetch: get_recent_news returned None or raised
\* NetworkError, or get_news_article raised NetworkError
CycleFailed == kind \in {"fetch_none", "network_error"}

\* C27: a cycle that fails in a fetch (the feed fetch returns None or raises
\* NetworkError, or a body fetch raises NetworkError in the walk) writes
\* nothing to the marker and announces and sends nothing, and the next fetch
\* comes only after the short sleep.
C27_FailedFetchLeavesState ==
    /\ [](CycleFailed =>
            /\ cycleLog = <<>>
            /\ announcedNow = {}
            /\ pc \in {"sleep_short", "loop_test", "fetch", "exit"}
            /\ pc \in {"loop_test", "fetch"} => lastSleep = ShortSleep)
    /\ [][CycleFailed' => store' = store]_vars

\* the body fetch of the second item fails after the first was collected
C27_Witness ==
    /\ pc = "sleep_short"
    /\ kind = "network_error"
    /\ Len(new_articles) = 1
    /\ idx = 2
    /\ Len(recent_news) >= 2
    /\ ReadLastId(store) = last_id
    /\ last_id # 0

\* C28: the marker in the store is greater than or equal to the id of every
\* article announced so far.
C28_MarkerCoversAnnounced ==
    \A a \in announcedBefore \cup announcedNow : ReadLastId(store) >= a

\* C29: an item whose body fetch returned None is left out of the batch:
\* the other collected items are the batch, oldest first, and are what the
\* cycle announces, the marker is the newest feed id, and the omitted item
\* is announced and sent neither in that cycle nor in a later one, as long
\* as every later feed holds the marker's article.
C29_NoneBodyLeftOut ==
    /\ \A i \in LogIdx :
          cycleLog[i].ev \in {"announce", "send"} => cycleLog[i].id \notin omitted
    /\ (noneBody /\ kind \in {"announce", "nothing"}) =>
          /\ ReadLastId(store) = recent_news[1].id
          /\ BatchIds = FreshPrefix \ omitted
          /\ \A k, l \in 1..Len(new_articles) : k < l => new_articles[k] < new_articles[l]
          /\ pc = "sleep_long" => announcedNow = BatchIds

\* an item left out in the first cycle is in the feed of the second cycle,
\* behind the marker's article, and the second cycle announces another item
C29_Witness ==
    /\ EmissionDone
    /\ cycles = 2
    /\ ~noneBody
    /\ announcedBefore # {}
    /\ announcedNow # {}
    /\ \E i, j \in 1..Len(recent_news) :
          /\ i < j
          /\ recent_news[i].id = last_id
          /\ recent_news[j].id \in omitted
          /\ recent_news[j].age <= 7

(***************************************************************************)
(* Properties of the stamina command.                                      *)
(***************************************************************************)
StaminaHandled == cmd_in.op = "stamina" /\ cmd_out # NoCommand
StaminaParsed == Len(cmd_in.hours) >= 1 /\ Len(cmd_in.minutes) >= 1
\* the hours and minutes that the command reads from its argument
InHours == IntOf(cmd_in.hours)
InMinutes == IntOf(SubSeq(cmd_in.minutes, 1, IF Len(cmd_in.minutes) > 2 THEN 2
                                                ELSE Len(cmd_in.minutes)))
\* the current stamina in minutes
InStamina == InHours * 60 + InMinutes

\* the resting time in minutes for a stamina of c minutes
RestMinutes(c) ==
    3 * (IF 2400 - c > 0 THEN 2400 - c ELSE 0)
    + 10 * (2520 - (IF c > 2400 THEN c ELSE 2400))
    + 10

\* C17: for a stamina of c minutes, 0 <= c < 2520 and minutes below 60, the
\* command replies with the resting time 3*max(2400-c,0) +
\* 10*(2520-max(2400,c)) + 10 minutes, as hours = total div 60 and minutes =
\* total mod 60.
C17_RestingTime ==
    (StaminaHandled /\ StaminaParsed /\ InMinutes < 60 /\ InStamina < 2520) =>
        /\ cmd_out.reply = "rest"
        /\ cmd_out.hours = RestMinutes(InStamina) \div 60
        /\ cmd_out.minutes = RestMinutes(InStamina) % 60
        /\ cmd_out.minutes < 60

\* 39:59 is one minute below the 40 hours: 3 + 1200 + 10 minutes
C17_Witness ==
    /\ StaminaHandled
    /\ cmd_in.hours = <<"3", "9">>
    /\ cmd_in.minutes = <<"5", "9">>
    /\ cmd_out = [op |-> "stamina", reply |-> "rest", hours |-> 20, minutes |-> 13]

\* C18: minutes of 60 or more, and a stamina above 42:00, are answered with
\* an error, and no resting time is computed.
C18_RejectsInvalid ==
    (/\ StaminaHandled
     /\ StaminaParsed
     /\ (InMinutes >= 60 \/ InHours > 42 \/ (InHours = 42 /\ InMinutes > 0))) =>
        /\ cmd_out.reply \in {"bad_minutes", "too_much"}
        /\ cmd_out.reply = "bad_minutes" <=> InMinutes >= 60
        /\ cmd_out.hours = 0
        /\ cmd_out.minutes = 0

\* 42:01 is refused
C18_Witness ==
    /\ StaminaHandled
    /\ cmd_in.hours = <<"4", "2">>
    /\ cmd_in.minutes = <<"0", "1">>
    /\ cmd_out.reply = "too_much"

\* C19: a stamina of exactly 42:00 is answered with "full already"; no
\* resting time (and no settling delay) is reported.
C19_FullAtCap ==
    (StaminaHandled /\ StaminaParsed /\ InHours = 42 /\ InMinutes = 0) =>
        cmd_out = [op |-> "stamina", reply |-> "full", hours |-> 0, minutes |-> 0]

C19_Witness ==
    /\ StaminaHandled
    /\ cmd_in.hours = <<"4", "2">>
    /\ cmd_in.minutes = <<"0", "0">>
    /\ cmd_out.reply = "full"

\* the resting time of a reply, in minutes
Rest(reply) == reply.hours * 60 + reply.minutes

\* C30: for a stamina below 42:00 with minutes below 60 the resting time of
\* the reply is at least 20 minutes, its value at 41:59, and at most 8410
\* minutes, its value at 00:00; and the reply to a stamina one minute higher
\* is a strictly shorter resting time.
C30_RestStrictlyDecreasing ==
    (StaminaHandled /\ cmd_out.reply = "rest") =>
        /\ 20 <= Rest(cmd_out) /\ Rest(cmd_out) <= 8410
        /\ InStamina = 0 => Rest(cmd_out) = 8410
        /\ InStamina = 41 * 60 + 59 => Rest(cmd_out) = 20
        /\ cmd_in.before # NoCommand =>
              /\ InStamina = IntOf(cmd_in.before.hours) * 60
                               + IntOf(SubSeq(cmd_in.before.minutes, 1,
                                              IF Len(cmd_in.before.minutes) > 2 THEN 2
                                              ELSE Len(cmd_in.before.minutes))) + 1
              /\ Rest(cmd_out) < Rest(cmd_in.before.reply)

\* 40:00 asked after 39:59, across the change of the regeneration rate
C30_Witness ==
    /\ StaminaHandled
    /\ cmd_in.before # NoCommand
    /\ cmd_in.before.hours = <<"3", "9">>
    /\ cmd_in.before.minutes = <<"5", "9">>
    /\ cmd_in.hours = <<"4", "0">>
    /\ cmd_out.reply = "rest"
    /\ Rest(cmd_out) = 1210
    /\ Rest(cmd_in.before.reply) = 1213

(***************************************************************************)
(* Properties of the share command.                                        *)
(***************************************************************************)
ShareHandled == cmd_in.op = "share" /\ cmd_out # NoCommand
\* the command reported a joint range for a group
GroupShares == ShareHandled /\ cmd_out.result.reply \in {"pair_share", "all_share"}
\* the levels of the characters of the group
GroupLevels ==
    { cmd_out.world[IF cmd_in.chars[i] = "Cy" THEN "cy" ELSE cmd_in.chars[i]] :
        i \in 1..Len(cmd_in.chars) }
\* the levels that a band can hold
BandLevels == 1..(2 * MaxLevel)

\* C20: the joint range that the command reports for a group of 2 to 5
\* characters holds exactly the levels that are in the band of every
\* character of the group.
C20_JointRangeIsIntersection ==
    GroupShares =>
        { l \in BandLevels : cmd_out.result.low <= l /\ l <= cmd_out.result.high }
          = { l \in BandLevels :
                \A v \in GroupLevels :
                    get_share_range(v)[1] <= l /\ l <= get_share_range(v)[2] }

\* three characters of three levels that can share
C20_Witness ==
    /\ GroupShares
    /\ Len(cmd_in.chars) = 3
    /\ Cardinality(GroupLevels) = 3
    /\ cmd_out.result.low < cmd_out.result.high

\* the command was given two to five names of at least two characters, and
\* every character was fetched
GroupFetched ==
    /\ ShareHandled
    /\ ~cmd_in.numeric
    /\ Len(cmd_in.chars) \in 2..MaxChars
    /\ \E i, j \in 1..Len(cmd_in.chars) :
          (IF cmd_in.chars[i] = "Cy" THEN "cy" ELSE cmd_in.chars[i])
            # (IF cmd_in.chars[j] = "Cy" THEN "cy" ELSE cmd_in.chars[j])
    /\ \A v \in GroupLevels : v >= 1
LowestLevel == CHOOSE v \in GroupLevels : \A w \in GroupLevels : v <= w
HighestLevel == CHOOSE v \in GroupLevels : \A w \in GroupLevels : v >= w

\* C21: for a group of different characters that all have the level L the
\* command reports that they can share, and the joint range it reports is
\* share_range(L).
C21_SameLevelGroup ==
    (GroupFetched /\ Cardinality(GroupLevels) = 1) =>
        /\ GroupShares
        /\ <<cmd_out.result.low, cmd_out.result.high>> = get_share_range(LowestLevel)

\* three characters of level 2, whose band is 2..3
C21_Witness ==
    /\ GroupFetched
    /\ GroupLevels = {2}
    /\ Len(cmd_in.chars) = 3
    /\ cmd_out.result.reply = "all_share"
    /\ cmd_out.result.low = 2

\* C22: when the lowest level of a group is below the low bound of the band
\* of the highest level, the command reports that bound minus the lowest
\* level as the levels needed; the number it reports is at least 1, and in
\* every other case the group is reported as able to share.
C22_LevelsNeeded ==
    GroupFetched =>
        LET bound == get_share_range(HighestLevel)[1]
        IN  /\ LowestLevel < bound =>
                  /\ cmd_out.result.reply = "needs_levels"
                  /\ cmd_out.result.needs = bound - LowestLevel
            /\ cmd_out.result.reply = "needs_levels" => cmd_out.result.needs >= 1
            /\ LowestLevel >= bound => GroupShares

\* the lowest character is one level short of the band of the highest
C22_Witness ==
    /\ GroupFetched
    /\ cmd_out.result.reply = "needs_levels"
    /\ cmd_out.result.needs = 1
    /\ LowestLevel + 1 = get_share_range(HighestLevel)[1]

SearchHandled == cmd_in.op = "searchworld" /\ cmd_out # NoCommand
\* the user typed a single level
TypedLevel ==
    IF cmd_in.op = "share" THEN cmd_in.numeric ELSE cmd_in.form = "level"

\* C23: every level that share and searchworld pass to share_range is at
\* least 1, and the range (lo, hi) of such a level L has 1 <= lo <= L <= hi; a
\* level below 1 typed by the user is rejected and never passed.
C23_ShareRangeHoldsLevel ==
    (ShareHandled \/ SearchHandled) =>
        /\ \A L \in cmd_out.calls :
              /\ L >= 1
              /\ 1 <= get_share_range(L)[1]
              /\ get_share_range(L)[1] <= L
              /\ L <= get_share_range(L)[2]
        /\ (TypedLevel /\ cmd_in.level < 1) =>
              /\ cmd_out.calls = {}
              /\ cmd_out.result.reply
                    \in {"invalid_level", "no_embed", "must_specify", "no_such_world",
                         "network_error", "no_one_online"}

\* share is asked for level 1, whose band starts at 1
C23_Witness ==
    /\ ShareHandled
    /\ cmd_in.numeric
    /\ cmd_in.level = 1
    /\ cmd_out.calls = {1}
    /\ cmd_out.result.reply = "level_range"
    /\ cmd_out.result.low = 1

StatsHandled == cmd_in.op = "stats" /\ Len(cmd_out.log) = cmd_in.asked
LastStats == cmd_out.log[Len(cmd_out.log)]

\* C24: for a level below 1 and for a level of 2000 or more the command
\* answers with an error: the stat formulas are not evaluated, no snapshot is
\* shown, and the level is not replaced by the nearest accepted one.
C24_RejectsLevelOutOfBounds ==
    (StatsHandled /\ cmd_in.form # "invalid" /\ (cmd_in.level < 1 \/ cmd_in.level >= 2000)) =>
        /\ LastStats.reply \in {"too_low", "too_high", "try_again", "does_not_exist"}
        /\ ~LastStats.evaluated
        /\ LastStats.hp = 0 /\ LastStats.mp = 0 /\ LastStats.cap = 0

\* level 2000 of a knight is refused
C24_Witness ==
    /\ StatsHandled
    /\ cmd_in.form = "level_vocation"
    /\ cmd_in.level = 2000
    /\ cmd_in.vocation = "knight"
    /\ LastStats.reply = "too_high"

\* C25: for one vocation, the hp, mp and capacity shown for a level are not
\* below those shown for the level before it, over the accepted levels
\* 1..1999.
C25_StatsMonotone ==
    (StatsHandled /\ Len(cmd_out.log) = 2
        /\ cmd_out.log[1].reply = "stats" /\ cmd_out.log[2].reply = "stats") =>
        /\ cmd_out.log[2].level = cmd_out.log[1].level + 1
        /\ cmd_out.log[2].vocation = cmd_out.log[1].vocation
        /\ cmd_out.log[1].hp <= cmd_out.log[2].hp
        /\ cmd_out.log[1].mp <= cmd_out.log[2].mp
        /\ cmd_out.log[1].cap <= cmd_out.log[2].cap

\* a knight asked at level 7 and then at level 8
C25_Witness ==
    /\ StatsHandled
    /\ Len(cmd_out.log) = 2
    /\ cmd_in.vocation = "knight"
    /\ cmd_out.log[1].reply = "stats" /\ cmd_out.log[1].level = 7
    /\ cmd_out.log[2].reply = "stats" /\ cmd_out.log[2].level = 8
    /\ cmd_out.log[1].hp < cmd_out.log[2].hp
====
